---- MODULE Spec2Model ----
(***************************************************************************)
(* Unit absorption spectrum generation (mag1c/target_generation.py).       *)
(*                                                                         *)
(* Numbers.  A float64 is modelled as a record [k, n, d]: k = "num" is the *)
(* exact rational n/d (d > 0, lowest terms), k = "inf" is +Inf (n = 1) or  *)
(* -Inf (n = -1), k = "nan" is NaN.  +, -, *, / follow IEEE 754 on the     *)
(* special values and are exact on rationals (no rounding).  The           *)
(* transcendental primitives log2, log, exp and x ** 0.5 are the           *)
(* piecewise-linear interpolants of the true functions through the integer *)
(* powers of two: exact at every power of two, continuous, strictly        *)
(* monotone, and exp underflows to 0 / overflows to Inf outside the        *)
(* exponent range, as the float64 functions do.                            *)
(***************************************************************************)
EXTENDS Integers, Sequences, FiniteSets, TLC

\* ------------------------------------------------------------------------
\* Bounds of the model
\* ------------------------------------------------------------------------
\* exponent range of the modelled floats: exp2(y) is 0 below 2^-ExpMin
ExpMin == 6
\* ... and +Inf above 2^ExpMax
ExpMax == 8
\* longest array handed to a vectorized axis mapper
MaxVecLen == 2

\* ------------------------------------------------------------------------
\* float64 arithmetic
\* ------------------------------------------------------------------------
Abs(x) == IF x < 0 THEN -x ELSE x

RECURSIVE GCD(_, _)
GCD(a, b) == IF b = 0 THEN a ELSE GCD(b, a % b)

\* the rational n/d (d # 0) in lowest terms with a positive denominator
Rat(n, d) ==
    LET g == GCD(Abs(n), Abs(d))
        s == IF d < 0 THEN -1 ELSE 1
    IN  [k |-> "num", n |-> s * (n \div g), d |-> s * (d \div g)]

Int2F(i) == [k |-> "num", n |-> i, d |-> 1]
NaN == [k |-> "nan", n |-> 0, d |-> 1]
PInf == [k |-> "inf", n |-> 1, d |-> 1]
NInf == [k |-> "inf", n |-> -1, d |-> 1]
Zero == Int2F(0)
One == Int2F(1)

\* np.isfinite
isfinite(x) == x.k = "num"
isnan(x) == x.k = "nan"

\* sign of a non-NaN value: -1, 0, 1
Sgn(x) == IF x.n > 0 THEN 1 ELSE IF x.n < 0 THEN -1 ELSE 0

FNeg(x) == IF x.k = "nan" THEN NaN ELSE [x EXCEPT !.n = -x.n]

FAdd(x, y) ==
    IF x.k = "nan" \/ y.k = "nan" THEN NaN
    ELSE IF x.k = "inf" /\ y.k = "inf" THEN (IF x.n = y.n THEN x ELSE NaN)
    ELSE IF x.k = "inf" THEN x
    ELSE IF y.k = "inf" THEN y
    ELSE LET g == GCD(x.d, y.d)
             l == (x.d \div g) * y.d
         IN  Rat(x.n * (l \div x.d) + y.n * (l \div y.d), l)

FSub(x, y) == FAdd(x, FNeg(y))

FMul(x, y) ==
    IF x.k = "nan" \/ y.k = "nan" THEN NaN
    ELSE IF x.k = "inf" \/ y.k = "inf"
         THEN (IF Sgn(x) * Sgn(y) = 0 THEN NaN
               ELSE IF Sgn(x) * Sgn(y) > 0 THEN PInf ELSE NInf)
    ELSE LET g1 == GCD(Abs(x.n), y.d)
             g2 == GCD(Abs(y.n), x.d)
         IN  Rat((x.n \div g1) * (y.n \div g2), (x.d \div g2) * (y.d \div g1))

FDiv(x, y) ==
    IF x.k = "nan" \/ y.k = "nan" THEN NaN
    ELSE IF x.k = "inf" /\ y.k = "inf" THEN NaN
    ELSE IF x.k = "inf"
         THEN (IF Sgn(x) * Sgn(y) < 0 THEN NInf ELSE PInf)
    ELSE IF y.k = "inf" THEN Zero
    ELSE IF y.n = 0
         THEN (IF x.n = 0 THEN NaN ELSE IF x.n > 0 THEN PInf ELSE NInf)
    ELSE FMul(x, Rat(y.d, y.n))

\* comparisons: any comparison with NaN is False
FLt(x, y) ==
    /\ x.k # "nan" /\ y.k # "nan"
    /\ IF x.k = "inf" THEN x.n < 0 /\ y # x
       ELSE IF y.k = "inf" THEN y.n > 0
       ELSE Sgn(FSub(x, y)) < 0
FGt(x, y) == FLt(y, x)
FLe(x, y) == x.k # "nan" /\ y.k # "nan" /\ ~FLt(y, x)
FGe(x, y) == FLe(y, x)

\* floor of a rational
Floor(x) == x.n \div x.d
\* 2^e for any integer e
Pow2(e) == IF e >= 0 THEN Rat(2 ^ e, 1) ELSE Rat(1, 2 ^ (-e))

\* log2 of a positive rational: e + (x / 2^e - 1) for 2^e <= x < 2^(e+1)
RECURSIVE Log2Pos(_)
Log2Pos(x) ==
    IF x.n >= 2 * x.d THEN FAdd(Log2Pos(Rat(x.n, 2 * x.d)), One)
    ELSE IF x.n < x.d THEN FSub(Log2Pos(Rat(2 * x.n, x.d)), One)
    ELSE FSub(x, One)

\* np.log2
log2(x) ==
    IF x.k = "nan" THEN NaN
    ELSE IF x.k = "inf" THEN (IF x.n > 0 THEN PInf ELSE NaN)
    ELSE IF x.n < 0 THEN NaN
    ELSE IF x.n = 0 THEN NInf
    ELSE Log2Pos(x)

\* 2 ** y for a rational y: 2^floor(y) * (1 + y - floor(y)), the inverse of
\* Log2Pos
Exp2Rat(y) == FMul(Pow2(Floor(y)), FAdd(One, FSub(y, Int2F(Floor(y)))))

\* 2 ** y as a float64: 0 below the exponent range, +Inf above it
exp2(y) ==
    IF y.k = "nan" THEN NaN
    ELSE IF y.k = "inf" THEN (IF y.n > 0 THEN PInf ELSE Zero)
    ELSE IF Floor(y) < -ExpMin THEN Zero
    ELSE IF Floor(y) >= ExpMax THEN PInf
    ELSE Exp2Rat(y)

\* ln 2
LN2 == Rat(3, 4)
\* np.pi
PI == Rat(25, 8)

\* np.log
log(x) == FMul(LN2, log2(x))
\* np.exp
exp(y) == exp2(FDiv(y, LN2))
\* np.sqrt, x ** 0.5: halves the exponent, so it neither underflows nor
\* overflows
sqrt(x) ==
    IF x.k = "nan" THEN NaN
    ELSE IF x.k = "inf" THEN (IF x.n > 0 THEN PInf ELSE NaN)
    ELSE IF x.n < 0 THEN NaN
    ELSE IF x.n = 0 THEN Zero
    ELSE Exp2Rat(FDiv(Log2Pos(x), Int2F(2)))

\* ------------------------------------------------------------------------
\* Python / numpy values: a number with its dtype ("int" or "float")
\* ------------------------------------------------------------------------
PyInt(i) == [ty |-> "int", v |-> Int2F(i)]
PyFloat(x) == [ty |-> "float", v |-> x]

\* ndarray.astype / asanyarray(outputs, dtype=...): a float cast to an
\* integer dtype is truncated toward zero
astype(p, ty) ==
    IF ty = "int" /\ p.v.k = "num"
    THEN [ty |-> "int",
          v |-> Int2F(IF p.v.n >= 0 THEN p.v.n \div p.v.d
                      ELSE -((-p.v.n) \div p.v.d))]
    ELSE [ty |-> ty, v |-> p.v]

\* ------------------------------------------------------------------------
\* Axis index mappers (the undecorated Python functions)
\* ------------------------------------------------------------------------
get_5deg_zenith_angle_index(zenith_value) ==
    PyFloat(FDiv(zenith_value.v, Int2F(5)))

\* get_5deg_sensor_height_index with the intercept of the [4, 10) segment
\* mistyped (3/4 for 4/3)
sensor_height_index_intercept(sensor_value) ==
    LET x == sensor_value.v IN
    IF FLt(x, Int2F(1)) THEN PyFloat(Zero)
    ELSE IF FLt(x, Int2F(2)) THEN PyFloat(FSub(x, One))
    ELSE IF FLt(x, Int2F(4)) THEN PyFloat(FDiv(x, Int2F(2)))
    ELSE IF FLt(x, Int2F(10)) THEN PyFloat(FAdd(FDiv(x, Int2F(6)), Rat(3, 4)))
    ELSE IF FLt(x, Int2F(20)) THEN PyFloat(FAdd(FDiv(x, Int2F(10)), Int2F(2)))
    ELSE IF FLt(x, Int2F(200))
         THEN PyFloat(FAdd(FDiv(x, Int2F(180)), Rat(35, 9)))
    ELSE PyInt(5)

get_5deg_sensor_height_index(sensor_value) ==
    LET x == sensor_value.v IN
    IF FLt(x, Int2F(1)) THEN PyFloat(Zero)
    ELSE IF FLt(x, Int2F(2)) THEN PyFloat(FSub(x, One))
    ELSE IF FLt(x, Int2F(4)) THEN PyFloat(FDiv(x, Int2F(2)))
    ELSE IF FLt(x, Int2F(10)) THEN PyFloat(FAdd(FDiv(x, Int2F(6)), Rat(4, 3)))
    ELSE IF FLt(x, Int2F(20)) THEN PyFloat(FAdd(FDiv(x, Int2F(10)), Int2F(2)))
    ELSE IF FLt(x, Int2F(200))
         THEN PyFloat(FAdd(FDiv(x, Int2F(180)), Rat(35, 9)))
    ELSE PyInt(5)

\* get_5deg_ground_altitude_index with the switch point at 1/2
ground_altitude_index_switch(ground_value) ==
    IF FLt(ground_value.v, Rat(1, 2))
    THEN [ty |-> ground_value.ty, v |-> FMul(Int2F(2), ground_value.v)]
    ELSE [ty |-> ground_value.ty, v |-> FAdd(One, ground_value.v)]

get_5deg_ground_altitude_index(ground_value) ==
    IF FLt(ground_value.v, Int2F(1))
    THEN [ty |-> ground_value.ty, v |-> FMul(Int2F(2), ground_value.v)]
    ELSE [ty |-> ground_value.ty, v |-> FAdd(One, ground_value.v)]

get_5deg_water_vapor_index(water_value) == water_value

\* get_5deg_methane_index with the logarithm taken of v / 1000
methane_index_log_scale(methane_value) ==
    IF FLe(methane_value.v, Zero) THEN PyInt(0)
    ELSE IF FLt(methane_value.v, Int2F(1000))
         THEN PyFloat(FDiv(methane_value.v, Int2F(1000)))
    ELSE PyFloat(log2(FDiv(methane_value.v, Int2F(1000))))

get_5deg_methane_index(methane_value) ==
    IF FLe(methane_value.v, Zero) THEN PyInt(0)
    ELSE IF FLt(methane_value.v, Int2F(1000))
         THEN PyFloat(FDiv(methane_value.v, Int2F(1000)))
    ELSE PyFloat(log2(FDiv(methane_value.v, Int2F(500))))

\* the mapper of an axis, by name
AxisNames == {"zenith", "sensor", "ground", "water", "methane"}
pyfunc(axis, x) ==
    CASE axis = "zenith" -> get_5deg_zenith_angle_index(x)
      [] axis = "sensor" -> get_5deg_sensor_height_index(x)
      [] axis = "ground" -> get_5deg_ground_altitude_index(x)
      [] axis = "water" -> get_5deg_water_vapor_index(x)
      [] axis = "methane" -> get_5deg_methane_index(x)

\* np.vectorize(pyfunc)(arr) with otypes unset: the output dtype is the
\* dtype of pyfunc's result on the FIRST element, and every result is cast
\* to it.  arr is a non-empty sequence of elements of one dtype; a scalar
\* argument is the one-element case.
vectorize(axis, arr) ==
    LET otype == pyfunc(axis, arr[1]).ty
    IN  [i \in 1..Len(arr) |-> astype(pyfunc(axis, arr[i]), otype)]

\* ------------------------------------------------------------------------
\* Lookup grid (dataset_noms.npz): shape of grid_5deg_data and the
\* wavelength axis
\* ------------------------------------------------------------------------
NZenith == 2
NSensor == 2
NGround == 2
NWater == 2
NMethane == 7
NWave == 3
GridShape == <<NZenith, NSensor, NGround, NWater, NMethane, NWave>>
\* index tuples of grid_5deg_data, 0-based as in numpy
GridIndex ==
    {<<z, s, g, w, m, l>> :
        z \in 0..NZenith - 1, s \in 0..NSensor - 1, g \in 0..NGround - 1,
        w \in 0..NWater - 1, m \in 0..NMethane - 1, l \in 0..NWave - 1}
\* datafile['wave']: native wavelengths, 1 nm apart
wave == [l \in 1..NWave |-> Int2F(2299 + l)]

\* ------------------------------------------------------------------------
\* Grid lookup
\* ------------------------------------------------------------------------
\* get_5deg_lookup_index: every mapper is called on a scalar; np.asarray of
\* the five results is a float64 column
get_5deg_lookup_index(zenith, sensor, ground, water, methane) ==
    <<vectorize("zenith", <<zenith>>)[1].v,
      vectorize("sensor", <<sensor>>)[1].v,
      vectorize("ground", <<ground>>)[1].v,
      vectorize("water", <<water>>)[1].v,
      vectorize("methane", <<methane>>)[1].v>>

\* mode='nearest': a coordinate outside [0, n-1] is moved to the nearest edge
Nearest(c, n) ==
    IF FLt(c, Zero) THEN Zero
    ELSE IF FGt(c, Int2F(n - 1)) THEN Int2F(n - 1)
    ELSE c

\* scipy.ndimage.map_coordinates(im, coords, order=1, mode='nearest') for the
\* wavelength slice l of the grid: linear interpolation along each of the
\* five axes in turn; prefix holds the indices of the axes already fixed
RECURSIVE map_coordinates(_, _, _, _)
map_coordinates(grid_data, l, coords, prefix) ==
    IF Len(prefix) = 5 THEN grid_data[Append(prefix, l)]
    ELSE LET ax == Len(prefix) + 1
             c == Nearest(coords[ax], GridShape[ax])
             i0 == Floor(c)
             t == FSub(c, Int2F(i0))
         IN  IF t = Zero
             THEN map_coordinates(grid_data, l, coords, Append(prefix, i0))
             ELSE FAdd(FMul(FSub(One, t),
                            map_coordinates(grid_data, l, coords,
                                            Append(prefix, i0))),
                       FMul(t,
                            map_coordinates(grid_data, l, coords,
                                            Append(prefix, i0 + 1))))

\* spline_5deg_lookup with order=1, the default (the cubic spline of order=3
\* is not modelled): one value per native wavelength
spline_5deg_lookup(grid_data, zenith, sensor, ground, water, methane) ==
    LET coords == get_5deg_lookup_index(zenith, sensor, ground, water, methane)
    IN  [l \in 1..NWave |-> map_coordinates(grid_data, l - 1, coords, <<>>)]

\* the concentration ladder of generate_template_from_bands (an int64 array)
concentrations == <<0, 500, 1000, 2000, 4000, 8000, 16000, 32000>>

\* LibraryRow with the methane value of the previous row (index off by one)
LibraryRow_previous(grid_data, p, methane_vals, i) ==
    spline_5deg_lookup(grid_data, PyFloat(p.zenith), PyFloat(p.sensor),
                       PyFloat(p.ground), PyFloat(p.water),
                       PyInt(methane_vals[IF i = 1 THEN 1 ELSE i - 1]))

\* row i of the library: the lookup with methane = methane_vals[i] and the
\* other four scene parameters as given
LibraryRow(grid_data, p, methane_vals, i) ==
    spline_5deg_lookup(grid_data, PyFloat(p.zenith), PyFloat(p.sensor),
                       PyFloat(p.ground), PyFloat(p.water),
                       PyInt(methane_vals[i]))

\* generate_library's loop run to the end, rows in ladder order
RECURSIVE LibraryLoop(_, _, _, _)
LibraryLoop(grid_data, p, methane_vals, n) ==
    IF n = 0 THEN <<>>
    ELSE Append(LibraryLoop(grid_data, p, methane_vals, n - 1),
                LibraryRow(grid_data, p, methane_vals, n))

\* ------------------------------------------------------------------------
\* Band response, resampling, regression
\* ------------------------------------------------------------------------
\* sum of a sequence of floats, left to right
RECURSIVE FSum(_)
FSum(xs) ==
    IF Len(xs) = 0 THEN Zero
    ELSE FAdd(FSum(SubSeq(xs, 1, Len(xs) - 1)), xs[Len(xs)])

\* column j of a matrix held as a sequence of rows
Column(mat, j) == [r \in 1..Len(mat) |-> mat[r][j]]

\* np.isfinite over an array: any element non-finite
AnyNonFinite(xs) == \E j \in 1..Len(xs) : ~isfinite(xs[j])

\* sigma = fwhm / (2.0 * np.sqrt(2.0 * np.log(2.0)))
Sigma(f) == FDiv(f, FMul(Int2F(2), sqrt(FMul(Int2F(2), log(Int2F(2))))))

\* numer / denom for native wavelength w, band center c and band width f
Gaussian(w, c, f) ==
    LET var == FMul(Sigma(f), Sigma(f))
        denom == sqrt(FMul(FMul(Int2F(2), PI), var))
        diff == FSub(w, c)
        numer == exp(FDiv(FNeg(FMul(diff, diff)), FMul(Int2F(2), var)))
    IN  FDiv(numer, denom)

\* the response matrix before normalization: [native wavelength][band]
GaussianResponse(cs, fs) ==
    [l \in 1..NWave |-> [j \in 1..Len(cs) |-> Gaussian(wave[l], cs[j], fs[j])]]

\* Normalize without the where= mask: every column is divided by its sum
Normalize_unmasked(resp) ==
    [l \in 1..Len(resp) |->
        [j \in 1..Len(resp[l]) |-> FDiv(resp[l][j], FSum(Column(resp, j)))]]

\* np.divide(response, response.sum(axis=0), where=response.sum(axis=0) > 0,
\* out=response): a column is divided by its sum where the sum is > 0 and
\* is left as it is elsewhere
Normalize(resp) ==
    [l \in 1..Len(resp) |->
        [j \in 1..Len(resp[l]) |->
            LET total == FSum(Column(resp, j))
            IN  IF FGt(total, Zero) THEN FDiv(resp[l][j], total)
                ELSE resp[l][j]]]

\* rads.dot(response): [concentration][band]
Dot(a, b, nb) ==
    [r \in 1..Len(a) |->
        [j \in 1..nb |->
            FSum([l \in 1..Len(b) |-> FMul(a[r][l], b[l][j])])]]

\* LogWhere without the where= mask
LogWhere_unmasked(x) == log(x)
\* LogWhere with the mask ~(resampled <= 0), which lets NaN through
LogWhere_not_le(x) == IF FLe(x, Zero) THEN Zero ELSE log(x)

\* np.log(resampled, out=np.zeros_like(resampled), where=resampled > 0)
LogWhere(x) == IF FGt(x, Zero) THEN log(x) ELSE Zero

\* np.linalg.lstsq of y against the design matrix [1, x] (full rank): row 1
\* of the solution, the ordinary least squares slope (row 0, the intercept,
\* is not used by the caller).  The slope is returned as the pair <<b, u>>
\* standing for b / u, u the greatest common divisor of x: b is the slope
\* per u units of x, an exact rational of moderate size.
RECURSIVE GCDSeq(_)
GCDSeq(xs) ==
    IF Len(xs) = 0 THEN 0 ELSE GCD(GCDSeq(SubSeq(xs, 1, Len(xs) - 1)), xs[Len(xs)])

\* lstsq against the design matrix [x] alone (the column of ones left out)
lstsq_no_intercept(x, y) ==
    LET n == Len(x)
        u == GCDSeq(x)
        k == [i \in 1..n |-> Int2F(x[i] \div u)]
        sxy == FSum([i \in 1..n |-> FMul(k[i], y[i])])
        sxx == FSum([i \in 1..n |-> FMul(k[i], k[i])])
    IN  <<FDiv(sxy, sxx), u>>

lstsq(x, y) ==
    LET n == Len(x)
        u == GCDSeq(x)
        k == [i \in 1..n |-> Int2F(x[i] \div u)]
        kbar == FDiv(FSum(k), Int2F(n))
        sxy == FSum([i \in 1..n |-> FMul(FSub(k[i], kbar), y[i])])
        sxx == FSum([i \in 1..n |-> FMul(FSub(k[i], kbar), k[i])])
    IN  <<FDiv(sxy, sxx), u>>

SCALING == 100000

\* ------------------------------------------------------------------------
\* State
\* ------------------------------------------------------------------------
VARIABLES
    mapAxis,    \* axis mapper last called ("none" before the call)
    mapIn,      \* the array it was called on
    mapOut,     \* the array it returned
    pc,         \* position in generate_template_from_bands
    centers,    \* argument: band centers
    fwhm,       \* argument: band widths
    params,     \* argument: zenith, sensor, ground, water
    grid,       \* grid_5deg_data of the dataset file
    loads,      \* calls of load_dataset so far
    lookups,    \* calls of spline_5deg_lookup so far
    rads,       \* the radiance library: row index -> row, rows filled so far
    response,   \* the response matrix [native wavelength][band]
    resampled,  \* rads.dot(response) [concentration][band]
    lograd,     \* log radiance [concentration][band]
    target,     \* the returned rows <<band index, center, coefficient>>
    err         \* the RuntimeError raised, "none" if none

mapVars == <<mapAxis, mapIn, mapOut>>
inputVars == <<centers, fwhm, params, grid>>
libVars == <<loads, lookups, rads>>
outVars == <<response, resampled, lograd, target>>
vars == <<mapAxis, mapIn, mapOut, pc, centers, fwhm, params, grid, loads,
          lookups, rads, response, resampled, lograd, target, err>>

\* no call of generate_template_from_bands is in progress
PipelineIdle ==
    /\ pc = "idle"
    /\ centers = <<>> /\ fwhm = <<>> /\ params = <<>> /\ grid = <<>>
    /\ loads = 0 /\ lookups = 0 /\ rads = <<>>
    /\ response = <<>> /\ resampled = <<>> /\ lograd = <<>> /\ target = <<>>
    /\ err = "none"

\* no axis mapper is called on an array
MapIdle == mapAxis = "none" /\ mapIn = <<>> /\ mapOut = <<>>

\* ------------------------------------------------------------------------
\* Calls of the vectorized axis mappers on arrays
\* ------------------------------------------------------------------------
\* values an axis mapper is called on: every segment of every mapper, its
\* breakpoints, the grid nodes and the concentration ladder
MapInts == {-1, 0, 1, 2, 3, 4, 5, 10, 15, 20, 110, 200, 250,
            500, 750, 1000, 1500, 2000, 4000, 8000, 16000, 32000}
MapFloats == {Int2F(i) : i \in MapInts} \cup {Rat(1, 2), Rat(3, 2), Rat(1, 4)}

\* np.asarray of a list: one dtype for all elements
MapArrays ==
    UNION {[1..n -> {PyInt(i) : i \in MapInts}]
           \cup [1..n -> {PyFloat(x) : x \in MapFloats}] : n \in 1..MaxVecLen}

MapInit ==
    /\ mapAxis = "none"
    /\ mapIn \in MapArrays
    /\ mapOut = <<>>
    /\ PipelineIdle

CallMapper(axis) ==
    /\ mapAxis = "none"
    /\ mapAxis' = axis
    /\ mapOut' = vectorize(axis, mapIn)
    /\ UNCHANGED <<mapIn, pc, inputVars, libVars, outVars, err>>

CallZenith == CallMapper("zenith")
CallSensor == CallMapper("sensor")
CallGround == CallMapper("ground")
CallWater == CallMapper("water")
CallMethane == CallMapper("methane")

MapNext == CallZenith \/ CallSensor \/ CallGround \/ CallWater \/ CallMethane

SpecMap == MapInit /\ [][MapNext]_vars

\* ------------------------------------------------------------------------
\* Inputs of generate_template_from_bands
\* ------------------------------------------------------------------------
\* methane concentration of grid node m, in units of 500 ppm m
NodeUnits(m) == IF m = 0 THEN 0 ELSE 2 ^ m

\* a grid with a wavelength whose log2 radiance is a2 + s2 per 500 ppm m of
\* methane (a line in concentration), a wavelength without absorption, and
\* a wavelength whose radiance reaches zero and below
GridLine(a2, s2) ==
    [ix \in GridIndex |->
        FMul(Int2F(1 + ix[1] + ix[2] + ix[3] + ix[4]),
             CASE ix[6] % 3 = 0 ->
                    Exp2Rat(FAdd(a2, FMul(s2, Int2F(NodeUnits(ix[5])))))
               [] ix[6] % 3 = 1 -> Int2F(16)
               [] OTHER -> Int2F(2 - ix[5]))]

\* a grid of positive radiances
GridB ==
    [ix \in GridIndex |->
        Int2F((ix[6] + 1) + (NMethane - ix[5]) + ix[1] * ix[2] + ix[3] + ix[4])]

Grids ==
    {GridLine(Int2F(4), Rat(-1, 16)), GridLine(Int2F(6), Rat(-3, 32)),
     GridLine(Zero, Rat(1, 16)), GridB}

Scene(z, s, g, w) == [zenith |-> z, sensor |-> s, ground |-> g, water |-> w]
Scenes ==
    {Scene(Zero, Int2F(200), Zero, Zero),
     Scene(Rat(5, 2), Rat(3, 2), Rat(1, 4), Int2F(1)),
     Scene(Zero, Rat(1, 2), Zero, Rat(1, 2)),
     Scene(Int2F(10), Int2F(250), Int2F(3), Int2F(2))}

Bands(c, f) == [centers |-> c, fwhm |-> f]
\* band descriptors that pass validation: a wide band, a band narrower than
\* the wavelength spacing, FWHM 0, a band far outside the grid's
\* wavelengths, a negative FWHM, several bands, no band
ValidBands ==
    {Bands(<<Int2F(2301)>>, <<Int2F(5)>>),
     Bands(<<Int2F(2300)>>, <<Rat(1, 2)>>),
     Bands(<<Int2F(2301)>>, <<Zero>>),
     Bands(<<Int2F(2400)>>, <<Int2F(5)>>),
     Bands(<<Int2F(2301)>>, <<Int2F(-5)>>),
     Bands(<<Int2F(2300), Int2F(2302)>>, <<Rat(1, 2), Rat(1, 2)>>),
     Bands(<<Int2F(2301), Int2F(2400), Int2F(2302)>>,
           <<Int2F(5), Int2F(5), Zero>>),
     Bands(<<>>, <<>>)}
\* band descriptors that do not
InvalidBands ==
    {Bands(<<NaN>>, <<Int2F(5)>>),
     Bands(<<Int2F(2300)>>, <<PInf>>),
     Bands(<<Int2F(2300), NInf>>, <<Int2F(5), Int2F(5)>>),
     Bands(<<Int2F(2300), Int2F(2301)>>, <<Int2F(5)>>),
     Bands(<<>>, <<Int2F(5)>>),
     Bands(<<Int2F(2300)>>, <<Int2F(5), NaN>>)}

PipelineInit(bandSets) ==
    /\ pc = "start"
    /\ \E b \in bandSets : centers = b.centers /\ fwhm = b.fwhm
    /\ params \in Scenes
    /\ grid \in Grids
    /\ loads = 0 /\ lookups = 0 /\ rads = <<>>
    /\ response = <<>> /\ resampled = <<>> /\ lograd = <<>> /\ target = <<>>
    /\ err = "none"
    /\ MapIdle

Init == PipelineInit(ValidBands \cup InvalidBands)

\* ------------------------------------------------------------------------
\* generate_template_from_bands, statement by statement
\* ------------------------------------------------------------------------
\* ValidationError without the length check
ValidationError_no_length(cs, fs) ==
    IF AnyNonFinite(cs) \/ AnyNonFinite(fs) THEN "nonfinite" ELSE "none"

\* the error the validation raises for these arguments, "none" if none
ValidationError(cs, fs) ==
    IF AnyNonFinite(cs) \/ AnyNonFinite(fs) THEN "nonfinite"
    ELSE IF Len(cs) # Len(fs) THEN "length"
    ELSE "none"

\* lines 84-89
Validate ==
    /\ pc = "start"
    /\ err' = ValidationError(centers, fwhm)
    /\ pc' = IF err' = "none" THEN "load" ELSE "error"
    /\ UNCHANGED <<mapVars, inputVars, libVars, outVars>>

\* generate_library, lines 69-70: load_dataset, np.empty (no row holds a
\* value yet)
LoadDataset ==
    /\ pc = "load"
    /\ loads' = loads + 1
    /\ rads' = <<>>
    /\ pc' = "library"
    /\ UNCHANGED <<mapVars, inputVars, lookups, outVars, err>>

\* generate_library, line 72: row i of the library is looked up and stored
LookupRow(i) ==
    /\ pc = "library"
    /\ i \in 1..Len(concentrations)
    /\ i \notin DOMAIN rads
    /\ rads' = (i :> LibraryRow(grid, params, concentrations, i)) @@ rads
    /\ lookups' = lookups + 1
    /\ UNCHANGED <<mapVars, inputVars, loads, outVars, pc, err>>

\* the loop of line 71 takes the rows in ladder order
LookupNextRow == LookupRow(Cardinality(DOMAIN rads) + 1)

\* the rows taken in any order, as a pool of workers would
LookupAnyRow == \E i \in 1..Len(concentrations) : LookupRow(i)

\* lines 73, 97-103: the library is returned, the Gaussian response is
\* evaluated
Response ==
    /\ pc = "library"
    /\ DOMAIN rads = 1..Len(concentrations)
    /\ response' = GaussianResponse(centers, fwhm)
    /\ pc' = "normalize"
    /\ UNCHANGED <<mapVars, inputVars, libVars, resampled, lograd, target, err>>

\* line 105
NormalizeResponse ==
    /\ pc = "normalize"
    /\ response' = Normalize(response)
    /\ pc' = "resample"
    /\ UNCHANGED <<mapVars, inputVars, libVars, resampled, lograd, target, err>>

\* line 107
Resample ==
    /\ pc = "resample"
    /\ resampled' = Dot(rads, response, Len(centers))
    /\ pc' = "log"
    /\ UNCHANGED <<mapVars, inputVars, libVars, response, lograd, target, err>>

\* line 108
LogRadiance ==
    /\ pc = "log"
    /\ lograd' = [r \in 1..Len(resampled) |->
                    [j \in 1..Len(resampled[r]) |-> LogWhere(resampled[r][j])]]
    /\ pc' = "fit"
    /\ UNCHANGED <<mapVars, inputVars, libVars, response, resampled, target, err>>

\* slope[1, :] * SCALING for the slope <<b, u>>
Scaled(slope) == FMul(slope[1], Rat(SCALING, slope[2]))

\* the rows of the result for the log radiances lr
Target(cs, lr) ==
    [j \in 1..Len(cs) |->
        <<j, cs[j], Scaled(lstsq(concentrations, Column(lr, j)))>>]

\* lines 109-112
Fit ==
    /\ pc = "fit"
    /\ target' = Target(centers, lograd)
    /\ pc' = "done"
    /\ UNCHANGED <<mapVars, inputVars, libVars, response, resampled, lograd, err>>

Next ==
    \/ Validate
    \/ LoadDataset
    \/ LookupNextRow
    \/ Response
    \/ NormalizeResponse
    \/ Resample
    \/ LogRadiance
    \/ Fit

Spec == Init /\ [][Next]_vars

\* the same call with the library rows computed in any order
AnyOrderNext ==
    \/ Validate
    \/ LoadDataset
    \/ LookupAnyRow
    \/ Response
    \/ NormalizeResponse
    \/ Resample
    \/ LogRadiance
    \/ Fit

\* the order of the rows does not depend on the bands: two descriptor sets
AnyOrderInit ==
    PipelineInit({Bands(<<Int2F(2300), Int2F(2302)>>, <<Rat(1, 2), Rat(1, 2)>>),
                  Bands(<<Int2F(2300), Int2F(2301)>>, <<Int2F(5)>>)})

SpecAnyOrder == AnyOrderInit /\ [][AnyOrderNext]_vars

\* ------------------------------------------------------------------------
\* Claims about the axis index mappers (SpecMap)
\* ------------------------------------------------------------------------
\* a scalar call of the mapper of `axis` has returned
ScalarCall(axis) == mapAxis = axis /\ Len(mapIn) = 1

\* C2: for every sensor height v a scalar call of
\* get_5deg_sensor_height_index returns the closed form of v's segment
\* (0 below 1; v-1; v/2; v/6 + 4/3; v/10 + 2; v/180 + 35/9; 5 from 200 on),
\* so the nodes 1, 2, 4, 10, 20, 200 map to 0, 1, 2, 3, 4, 5.
C2_SensorHeightClosedForm ==
    ScalarCall("sensor") =>
        LET v == mapIn[1].v
            r == mapOut[1].v
            In(lo, hi) == FLe(Int2F(lo), v) /\ FLt(v, Int2F(hi))
        IN  /\ FLt(v, Int2F(1)) => r = Zero
            /\ In(1, 2) => r = FSub(v, One)
            /\ In(2, 4) => r = Rat(v.n, 2 * v.d)
            /\ In(4, 10) => r = Rat(v.n + 8 * v.d, 6 * v.d)
            /\ In(10, 20) => r = Rat(v.n + 20 * v.d, 10 * v.d)
            /\ In(20, 200) => r = Rat(v.n + 700 * v.d, 180 * v.d)
            /\ FGe(v, Int2F(200)) => r = Int2F(5)
            /\ \A j \in 1..6 :
                 v = Int2F(<<1, 2, 4, 10, 20, 200>>[j]) => r = Int2F(j - 1)

C2_Witness ==
    /\ ScalarCall("sensor")
    /\ mapIn[1].v = Int2F(5)
    /\ mapOut[1].v = Rat(13, 6)

\* C3: for every methane value v a scalar call of get_5deg_methane_index
\* returns 0 for v <= 0, v/1000 for 0 < v < 1000 and log2(v/500) from 1000
\* on; both non-zero branches give 1 at v = 1000, and the ladder 0, 500,
\* 1000, ..., 32000 maps to the increasing indices 0, 1/2, 1, 2, 3, 4, 5, 6.
C3_MethaneClosedForm ==
    ScalarCall("methane") =>
        LET v == mapIn[1].v
            r == mapOut[1].v
            ladder == <<0, 500, 1000, 2000, 4000, 8000, 16000, 32000>>
            index == <<Zero, Rat(1, 2), Int2F(1), Int2F(2), Int2F(3),
                       Int2F(4), Int2F(5), Int2F(6)>>
        IN  /\ FLe(v, Zero) => r = Zero
            /\ FLt(Zero, v) /\ FLt(v, Int2F(1000)) => r = Rat(v.n, 1000 * v.d)
            /\ FGe(v, Int2F(1000)) => r = log2(Rat(v.n, 500 * v.d))
            /\ v = Int2F(1000) => r = Rat(v.n, 1000 * v.d) /\ r = One
            /\ \A j \in 1..8 : v = Int2F(ladder[j]) => r = index[j]
            /\ \A j \in 1..7 : FLt(index[j], index[j + 1])

C3_Witness ==
    /\ ScalarCall("methane")
    /\ mapIn[1].v = Int2F(32000)
    /\ mapOut[1].v = Int2F(6)

\* C4: for every ground elevation v a scalar call of
\* get_5deg_ground_altitude_index returns 2v below 1 and 1 + v from 1 on, so
\* the nodes 0, 1/2, 1, 2, 3 map to 0, 1, 2, 3, 4 and both branches have the
\* value 2 at the switch point v = 1.
C4_GroundClosedForm ==
    ScalarCall("ground") =>
        LET v == mapIn[1].v
            r == mapOut[1].v
            node == <<Zero, Rat(1, 2), Int2F(1), Int2F(2), Int2F(3)>>
        IN  /\ FLt(v, One) => r = Rat(2 * v.n, v.d)
            /\ FGe(v, One) => r = Rat(v.d + v.n, v.d)
            /\ \A j \in 1..5 : v = node[j] => r = Int2F(j - 1)
            /\ v = One => r = Rat(2 * v.n, v.d)

C4_Witness ==
    /\ ScalarCall("ground")
    /\ mapIn[1].v = Rat(1, 2)
    /\ mapOut[1].v = One

\* C9: a vectorized call of an axis mapper on an array returns, at every
\* position, the index a scalar call of the mapper returns for that element.
C9_VectorizedEqualsScalar ==
    mapAxis # "none" =>
        \A i \in 1..Len(mapIn) :
            mapOut[i].v = vectorize(mapAxis, <<mapIn[i]>>)[1].v

\* ------------------------------------------------------------------------
\* Claims about generate_template_from_bands (Spec, SpecAnyOrder)
\* ------------------------------------------------------------------------
\* C1: whenever a band center or FWHM is non-finite or the two sequences
\* differ in length, the call ends in the validation error, and it does so
\* before any grid access: load_dataset and the lookup were never called,
\* no library row and no output row exists.
C1_ValidationBeforeGridAccess ==
    LET bad == \/ \E j \in 1..Len(centers) : centers[j].k # "num"
               \/ \E j \in 1..Len(fwhm) : fwhm[j].k # "num"
               \/ Len(centers) # Len(fwhm)
    IN  /\ bad /\ pc # "start" =>
            /\ pc = "error" /\ err # "none"
            /\ loads = 0 /\ lookups = 0 /\ rads = <<>> /\ target = <<>>
        /\ pc = "error" => loads = 0 /\ lookups = 0 /\ target = <<>>

C1_Witness ==
    /\ pc = "error" /\ err = "length"
    /\ Len(centers) = 2 /\ Len(fwhm) = 1
    /\ loads = 0

\* C5: after the normalization step every column of the response matrix sums
\* to 1 when its raw Gaussian weights sum to more than zero, and is exactly
\* its raw weights, without NaN or Inf, when they sum to zero; no error is
\* raised.
C5_NormalizedColumns ==
    pc \in {"resample", "log", "fit", "done"} =>
        /\ err = "none"
        /\ \A j \in 1..Len(centers) :
             LET raw == [l \in 1..NWave |-> Gaussian(wave[l], centers[j], fwhm[j])]
                 col == Column(response, j)
             IN  /\ FGt(FSum(raw), Zero) => FSum(col) = One
                 /\ FSum(raw) = Zero =>
                      col = raw /\ \A l \in 1..NWave : col[l].k = "num"

C5_Witness ==
    /\ pc = "resample"
    /\ \E j \in 1..Len(centers) :
         /\ FSum(Column(response, j)) = One
         /\ \E l \in 1..NWave : response[l][j] \notin {Zero, One}
    /\ \E j \in 1..Len(centers) :
         \A l \in 1..NWave :
            response[l][j] = Zero /\ Gaussian(wave[l], centers[j], fwhm[j]) = Zero

\* C6: computing the library rows in any order, every row i present is the
\* grid lookup for ladder entry i with the other four scene parameters and
\* the grid as given, the lookup was called once per row present, and the
\* complete library is the library of the sequential loop, rows in ladder
\* order.
C6_RowsIndependentOfOrder ==
    pc \notin {"start", "error", "load"} =>
        /\ \A i \in DOMAIN rads :
             rads[i] = spline_5deg_lookup(grid, PyFloat(params.zenith),
                                          PyFloat(params.sensor),
                                          PyFloat(params.ground),
                                          PyFloat(params.water),
                                          PyInt(concentrations[i]))
        /\ lookups = Cardinality(DOMAIN rads)
        /\ loads = 1
        /\ grid \in Grids
        /\ DOMAIN rads = 1..8 =>
             rads = LibraryLoop(grid, params, concentrations, 8)

C6_Witness ==
    /\ pc = "library"
    /\ DOMAIN rads = {8, 3, 5}
    /\ lookups = 3
    /\ rads[8] # rads[3]

\* C7: in the regression input every resampled radiance that is zero or
\* negative has log value 0 and every strictly positive one its natural
\* logarithm; no entry is NaN or -Inf and no error is raised.
C7_LogOfNonPositiveIsZero ==
    pc \in {"fit", "done"} =>
        /\ err = "none"
        /\ \A r \in 1..Len(resampled) : \A j \in 1..Len(resampled[r]) :
             LET x == resampled[r][j]
                 y == lograd[r][j]
             IN  /\ x.k = "num" /\ x.n <= 0 => y = Zero
                 /\ x.k = "num" /\ x.n > 0 => y = FMul(LN2, Log2Pos(x))
                 /\ y.k = "num"

C7_Witness ==
    /\ pc = "fit"
    /\ \E r \in 1..Len(resampled) : \E j \in 1..Len(resampled[r]) :
         resampled[r][j] = Zero /\ lograd[r][j] = Zero
    /\ \E r \in 1..Len(resampled) : \E j \in 1..Len(resampled[r]) :
         resampled[r][j].k = "num" /\ resampled[r][j].n < 0
         /\ lograd[r][j] = Zero
    /\ \E r \in 1..Len(resampled) : \E j \in 1..Len(resampled[r]) :
         resampled[r][j].k = "num" /\ resampled[r][j].n > 0
         /\ lograd[r][j] # Zero

\* the log radiances of band j lie exactly on a line a + b * concentration
\* over the ladder, all radiances positive; step is b * 500, the rise
\* between the first two ladder entries
OnLine(j, step) ==
    \A i \in 1..8 :
        /\ FGt(resampled[i][j], Zero)
        /\ lograd[i][j] =
             FAdd(lograd[1][j], FMul(step, Rat(concentrations[i], 500)))

\* C8: for each band whose log radiance is exactly a + b * concentration at
\* every ladder entry (all radiances positive), the output coefficient is
\* b * 1e5.
C8_SlopeRecovered ==
    pc = "done" =>
        \A j \in 1..Len(centers) :
            LET step == FSub(lograd[2][j], lograd[1][j])
            IN  OnLine(j, step) => target[j][3] = FMul(step, Int2F(200))

C8_Witness ==
    /\ pc = "done"
    /\ \E j \in 1..Len(centers) :
         /\ OnLine(j, FSub(lograd[2][j], lograd[1][j]))
         /\ target[j][3] = Rat(-75, 8)

\* C10: for every band descriptor set that passes validation (FWHM 0 and
\* zero-sum bands included) the call raises nothing and every output
\* coefficient, one per band, is finite; a NaN resampled radiance has log
\* value 0.
C10_FiniteCoefficients ==
    (\A j \in 1..Len(centers) : centers[j].k = "num")
    /\ (\A j \in 1..Len(fwhm) : fwhm[j].k = "num")
    /\ Len(centers) = Len(fwhm) /\ pc # "idle" =>
        /\ err = "none" /\ pc # "error"
        /\ pc \in {"fit", "done"} =>
             \A r \in 1..Len(resampled) : \A j \in 1..Len(resampled[r]) :
                resampled[r][j].k = "nan" => lograd[r][j] = Zero
        /\ pc = "done" =>
             /\ Len(target) = Len(centers)
             /\ \A j \in 1..Len(target) : target[j][3].k = "num"

C10_Witness ==
    /\ pc = "done"
    /\ \E j \in 1..Len(centers) :
         /\ fwhm[j] = Zero
         /\ \A l \in 1..NWave : response[l][j] = NaN
         /\ \A r \in 1..8 : resampled[r][j] = NaN
         /\ target[j][3] = Zero
    /\ \E j \in 1..Len(centers) :
         /\ \A l \in 1..NWave : response[l][j] = Zero
         /\ target[j][3] = Zero

====
